---- MODULE Spec2Model ----
(***************************************************************************)
(* Render-context recovery of the ThreeScene component                     *)
(* (src/src/components/scene/ThreeScene.tsx), the transfer proxies         *)
(* (supabase/functions/proxy-model and the two older proxy handlers) and   *)
(* the ModelViewer component (src/src/components/scene/ModelViewer.tsx):   *)
(* resolution of its url, loading, and the transform effect.               *)
(*                                                                         *)
(* React semantics that the model keeps:                                   *)
(*  - a handler closes over the state values of the render that created    *)
(*    it.  handleContextLost / handleContextRestored are attached to the   *)
(*    canvas inside Canvas.onCreated, which runs once when the canvas is   *)
(*    created, so the attached handleContextLost (and the timer callback   *)
(*    and reduceRenderQuality it closes over) keep reading the retryCount  *)
(*    and renderQuality of that render (variable "registered");            *)
(*    functional updates (setRetryCount(prev => prev + 1)) act on the live *)
(*    state.                                                               *)
(*  - the effect on [currentModel, cleanupMemory] runs after every commit  *)
(*    in which currentModel or cleanupMemory changed identity, and         *)
(*    cleanupMemory = useCallback(..., [contextLost]) changes identity     *)
(*    whenever contextLost changed.  An action is the handler followed by  *)
(*    the effects it triggers, up to quiescence (FlushEffects).            *)
(*  - the host reports context loss / restoration as events at any time    *)
(*    (spec 3, RenderContext: "Lost can occur at any time                  *)
(*    asynchronously"); the retry counter of the component only has a      *)
(*    meaning when a loss is reported again after a retry.                 *)
(* Times are in ms, device-pixel-ratio bounds in tenths.                   *)
(***************************************************************************)
EXTENDS Integers, Sequences, FiniteSets, TLC

VARIABLES
  error,             \* useState error: "none" (null) | "load" | "exhausted"
  fallbackToDefault, \* useState fallbackToDefault
  isLoading,         \* useState isLoading
  contextLost,       \* useState contextLost
  retryCount,        \* useState retryCount
  renderQuality,     \* useState renderQuality, <<min, max>> DPR in tenths
  retryTimer,        \* pending timer of retryTimerRef: 0 = none, else its delay
  registered,        \* state captured by the handlers attached in onCreated
  currentModel,      \* store.currentModel: 0 = null, else a model with model_url
  isGenerating,      \* store.isGenerating
  hasError,          \* ErrorBoundary.state.hasError
  hasLoseContextExt, \* gl.getExtension('WEBGL_lose_context') is available
  glLost,            \* the WebGL context-lost flag of the canvas
  lostEvtPending,    \* a webglcontextlost event queued by ext.loseContext()
  restoreTimers,     \* pending setTimeout(() => ext.restoreContext(), 1000)
  dismissT1,         \* pending outer timers of the Dismiss button
  dismissT2,         \* pending inner timers of the Dismiss button
  last,              \* history: name of the last step
  pre,               \* history: component state before the last step
  retriedSinceLoss,  \* history: a retry timer fired since the last loss event
  proxyPc,           \* proxy request: "idle" | "fetching" | "done"
  proxyReq,          \* the request a proxy handler is serving
  MESHY_API_KEY,     \* Deno.env MESHY_API_KEY of the edge function ("" = unset)
  upstreamAuth,      \* Authorization header of the upstream fetch
  proxyResp,         \* the response of the proxy handler
  upstream,          \* history: the upstream fetch of the request and its reply
  mvMounted,         \* a ModelViewer instance is mounted
  urlProp,           \* ModelViewer prop url (text of the asset reference)
  modelUrl,          \* ModelViewer useState modelUrl
  tasks,             \* setupModelUrl() calls waiting on their await
  loading,           \* URLs the GLTF loader is fetching
  gltfScene,         \* URL whose scene useGLTF returned at the last commit
  loaderCache,       \* URLs whose scene useGLTF keeps for the page session
  contentCache,      \* keys of the objects in storage bucket 'models'
  threeCacheFiles,   \* THREE.Cache.files
  resLog,            \* history: the resolution that completed last
  preCache,          \* history: contentCache before the last step
  setups,            \* setup effects run in this page session
  rawDim,            \* largest raw bounding-box dimension of the asset
  transform,         \* ModelViewer prop transform
  objScale,          \* gltfScene.scale (uniform), in sixteenths
  objRotation,       \* gltfScene.rotation.x/y/z, in degrees
  objColor,          \* material.color of the scene's standard materials
  objWireframe,      \* material.wireframe of the scene's standard materials
  applied,           \* history: transforms applied since normalization
  rawCenter,         \* x of the centre of the asset's raw bounding box
  objPosition,       \* gltfScene.position.x, in sixteenths
  normDim,           \* history: largest dimension after the last normalization
  normCenter,        \* history: x of the box centre after the last normalization
  sgParent,          \* Object3D.parent of the objects created under the Canvas
  sgVisible,         \* Object3D.visible of these objects
  disposeLog,        \* history: what disposeUnusedObjects disposed, and in which state
  reclaimRuns,       \* history: runs of disposeUnusedObjects
  dlPc,              \* downloadModel: position of the call
  dlFormat,          \* downloadModel: argument format
  dlUser,            \* store: a user is signed in
  dlSession,         \* supabase.auth.getSession() returns a session
  subscriptionTier,  \* profiles.subscription_tier of the user
  modelRow,          \* the row of table models: found, file_path set
  exportResp,        \* the response of the export-model function
  dlResult,          \* what downloadModel returned, or that it threw
  genPc,             \* generateModel: position of the call
  genResp,           \* generateModel: the response of its fetch
  genOutcome,        \* generateModel: returned or threw
  genCalls,          \* history: calls of generateModel
  credits,           \* profiles.credits of the user, as stored
  startCredits,      \* history: the credits the user started with
  modelsCreated,     \* history: rows inserted into table models
  fnPc,              \* generate-model: position of each running request
  fnCredits,         \* generate-model: profile.credits as each request read it
  fnStatus           \* generate-model: status each request was answered with

viewerVars == <<mvMounted, urlProp, modelUrl, tasks, loading, gltfScene,
                loaderCache, contentCache, threeCacheFiles, resLog, preCache,
                setups>>

transformVars == <<rawDim, transform, objScale, objRotation, objColor, objWireframe,
                   applied, rawCenter, objPosition, normDim, normCenter>>

\* the variables of the parts below the viewer
reclaimVars == <<sgParent, sgVisible, disposeLog, reclaimRuns>>

exportVars == <<dlPc, dlFormat, dlUser, dlSession, subscriptionTier, modelRow,
                exportResp, dlResult>>

generateVars == <<genPc, genResp, genOutcome, genCalls>>

creditVars == <<credits, startCredits, modelsCreated, fnPc, fnCredits, fnStatus>>

extraVars == <<reclaimVars, exportVars, generateVars, creditVars>>

sceneVars == <<error, fallbackToDefault, isLoading, contextLost, retryCount,
               renderQuality, retryTimer, registered, currentModel,
               isGenerating, hasError, hasLoseContextExt, glLost,
               lostEvtPending, restoreTimers, dismissT1, dismissT2,
               last, pre, retriedSinceLoss>>

proxyVars == <<proxyPc, proxyReq, MESHY_API_KEY, upstreamAuth, proxyResp,
               upstream>>

vars == <<sceneVars, proxyVars, viewerVars, transformVars, extraVars>>

\* ---- bounds ----
MaxRetryCount == 5
MaxRestoreTimers == 2
MaxDismissTimers == 1
NumModels == 1

\* ---- program constants ----
maxRetries == 3
BaseDelay == 1000
MaxDelay == 8000
HighQuality == <<10, 15>>
LowQuality == <<5, 10>>

Min(a, b) == IF a < b THEN a ELSE b

RECURSIVE Pow2(_)
Pow2(n) == IF n = 0 THEN 1 ELSE 2 * Pow2(n - 1)

\* getRetryDelay: Math.min(1000 * Math.pow(2, attempt), 8000)
getRetryDelay(attempt) == Min(BaseDelay * Pow2(attempt), MaxDelay)

\* The component state the handlers read and write, as one record.
St == [error |-> error, fallbackToDefault |-> fallbackToDefault,
       isLoading |-> isLoading, contextLost |-> contextLost,
       retryCount |-> retryCount, renderQuality |-> renderQuality,
       retryTimer |-> retryTimer, glLost |-> glLost,
       lostEvtPending |-> lostEvtPending, restoreTimers |-> restoreTimers]

\* handleError without setIsLoading(false)
handleErrorKeepsLoading(s) ==
  [s EXCEPT !.error = "load", !.fallbackToDefault = TRUE]

\* handleError: setError, setFallbackToDefault(true), setIsLoading(false)
handleError(s) ==
  [s EXCEPT !.error = "load", !.fallbackToDefault = TRUE, !.isLoading = FALSE]

\* reduceRenderQuality, reading the renderQuality its closure captured
reduceRenderQuality(s, captured) ==
  IF captured[1] > 5 THEN [s EXCEPT !.renderQuality = LowQuality] ELSE s

\* ext.loseContext(): sets the lost flag and queues the event; on a context
\* that is already lost it only records INVALID_OPERATION.
loseContext(s) ==
  IF s.glLost THEN s ELSE [s EXCEPT !.glLost = TRUE, !.lostEvtPending = TRUE]

\* cleanupMemory, reading the contextLost its closure captured
cleanupMemory(s, capturedLost) ==
  IF hasLoseContextExt /\ ~capturedLost
    THEN LET t == loseContext(s)
         IN [t EXCEPT !.restoreTimers = t.restoreTimers + 1]
    ELSE s

\* the effect without setRetryCount(0) and without clearing the retry timer
ModelEffectKeepsRetry(s) ==
  cleanupMemory([s EXCEPT !.error = "none", !.fallbackToDefault = FALSE,
                          !.isLoading = TRUE, !.contextLost = FALSE],
                s.contextLost)

\* body of the effect on [currentModel, cleanupMemory], for a model with a url
ModelEffect(s) ==
  cleanupMemory([s EXCEPT !.error = "none", !.fallbackToDefault = FALSE,
                          !.isLoading = TRUE, !.contextLost = FALSE,
                          !.retryCount = 0, !.retryTimer = 0],
                s.contextLost)

\* The effects a commit triggers: s0 is the state of the previous commit, s1
\* the state after the handler, model the current model, modelChanged whether
\* currentModel changed identity.  The effect sets contextLost to false, so a
\* run that started with contextLost = true is followed by exactly one more.
FlushEffects(s0, s1, model, modelChanged) ==
  IF model # 0 /\ (modelChanged \/ s1.contextLost # s0.contextLost)
    THEN LET a == ModelEffect(s1)
         IN IF a.contextLost # s1.contextLost THEN ModelEffect(a) ELSE a
    ELSE s1

\* handleContextLost as attached to the canvas: captured is the render state
\* its closure holds.
handleContextLost(s, captured) ==
  LET s1 == [s EXCEPT !.contextLost = TRUE, !.retryTimer = 0]
  IN IF captured.retryCount < maxRetries
       THEN [s1 EXCEPT !.retryTimer = getRetryDelay(captured.retryCount)]
       ELSE [s1 EXCEPT !.error = "exhausted"]

\* the timer callback created by handleContextLost
retryTimerCallback(s, captured) ==
  LET s1 == [s EXCEPT !.retryCount = s.retryCount + 1, !.retryTimer = 0]
      s2 == IF captured.retryCount > 0
              THEN reduceRenderQuality(s1, captured.renderQuality)
              ELSE s1
  IN [s2 EXCEPT !.contextLost = FALSE]

\* handleContextRestored without the reset of retryCount
handleContextRestoredKeepsCount(s) ==
  [s EXCEPT !.contextLost = FALSE, !.error = "none", !.retryTimer = 0]

\* handleContextRestored
handleContextRestored(s) ==
  [s EXCEPT !.contextLost = FALSE, !.retryCount = 0, !.error = "none",
            !.retryTimer = 0]

\* onClick of the Dismiss button (its timers are dismissT1 / dismissT2)
dismissClick(s) ==
  [s EXCEPT !.error = "none", !.retryCount = 0, !.contextLost = FALSE]

\* What the canvas shows (render selection of ThreeScene and ErrorBoundary).
View ==
  IF hasError THEN "boundaryPlaceholder"
  ELSE IF isGenerating \/ isLoading THEN "spinner"
  ELSE IF currentModel # 0 /\ ~fallbackToDefault /\ ~contextLost THEN "model"
  ELSE "placeholder"

\* ---- commit of a step ----
Commit(s, name) ==
  /\ s.restoreTimers <= MaxRestoreTimers
  /\ error' = s.error
  /\ fallbackToDefault' = s.fallbackToDefault
  /\ isLoading' = s.isLoading
  /\ contextLost' = s.contextLost
  /\ retryCount' = s.retryCount
  /\ renderQuality' = s.renderQuality
  /\ retryTimer' = s.retryTimer
  /\ glLost' = s.glLost
  /\ lostEvtPending' = s.lostEvtPending
  /\ restoreTimers' = s.restoreTimers
  /\ last' = name
  /\ pre' = St
  /\ UNCHANGED proxyVars

\* a step of ThreeScene alone: no ModelViewer is involved
SceneCommit(s, name) ==
  /\ Commit(s, name)
  /\ UNCHANGED <<viewerVars, transformVars, extraVars>>

SceneInit ==
  /\ error = "none"
  /\ fallbackToDefault = FALSE
  /\ isLoading = TRUE
  /\ contextLost = FALSE
  /\ retryCount = 0
  /\ renderQuality = HighQuality
  /\ retryTimer = 0
  /\ registered = [retryCount |-> 0, renderQuality |-> HighQuality]
  /\ currentModel = 0
  /\ isGenerating = FALSE
  /\ hasError = FALSE
  /\ hasLoseContextExt \in BOOLEAN
  /\ glLost = FALSE
  /\ lostEvtPending = FALSE
  /\ restoreTimers = 0
  /\ dismissT1 = 0
  /\ dismissT2 = 0
  /\ last = "init"
  /\ pre = [error |-> "none", fallbackToDefault |-> FALSE, isLoading |-> TRUE,
            contextLost |-> FALSE, retryCount |-> 0,
            renderQuality |-> HighQuality, retryTimer |-> 0, glLost |-> FALSE,
            lostEvtPending |-> FALSE, restoreTimers |-> 0]
  /\ retriedSinceLoss = FALSE

\* store.setCurrentModel(model) followed by the effect on currentModel
SetCurrentModel ==
  \E m \in 0..NumModels :
    /\ currentModel' = m
    /\ SceneCommit(FlushEffects(St, St, m, TRUE), "SetCurrentModel")
    /\ UNCHANGED <<registered, isGenerating, hasError, hasLoseContextExt,
                   dismissT1, dismissT2, retriedSinceLoss>>

\* store: set({ isGenerating: ... })
SetGenerating ==
  /\ isGenerating' = ~isGenerating
  /\ SceneCommit(St, "SetGenerating")
  /\ UNCHANGED <<registered, currentModel, hasError, hasLoseContextExt,
                 dismissT1, dismissT2, retriedSinceLoss>>

\* the host reports a context loss: webglcontextlost reaches the handler
HostContextLost ==
  /\ SceneCommit(FlushEffects(St,
                         handleContextLost([St EXCEPT !.glLost = TRUE],
                                           registered),
                         currentModel, FALSE), "HostContextLost")
  /\ retriedSinceLoss' = FALSE
  /\ UNCHANGED <<registered, currentModel, isGenerating, hasError,
                 hasLoseContextExt, dismissT1, dismissT2>>

\* the event queued by ext.loseContext() reaches the handler
ForcedContextLost ==
  /\ lostEvtPending
  /\ SceneCommit(FlushEffects(St,
                         handleContextLost([St EXCEPT !.lostEvtPending = FALSE],
                                           registered),
                         currentModel, FALSE), "ForcedContextLost")
  /\ retriedSinceLoss' = FALSE
  /\ UNCHANGED <<registered, currentModel, isGenerating, hasError,
                 hasLoseContextExt, dismissT1, dismissT2>>

\* the host reports the restoration: webglcontextrestored reaches the handler
HostContextRestored ==
  /\ SceneCommit(FlushEffects(St,
                         handleContextRestored([St EXCEPT !.glLost = FALSE]),
                         currentModel, FALSE), "HostContextRestored")
  /\ UNCHANGED <<registered, currentModel, isGenerating, hasError,
                 hasLoseContextExt, dismissT1, dismissT2, retriedSinceLoss>>

\* the timer of cleanupMemory fires: ext.restoreContext() restores a lost
\* context (webglcontextrestored follows) and is an error otherwise
RestoreTimerFire ==
  /\ restoreTimers > 0
  /\ LET s == [St EXCEPT !.restoreTimers = restoreTimers - 1]
     IN IF glLost
          THEN SceneCommit(FlushEffects(St,
                        handleContextRestored([s EXCEPT !.glLost = FALSE]),
                        currentModel, FALSE), "RestoreTimerFire")
          ELSE SceneCommit(s, "RestoreTimerNoop")
  /\ UNCHANGED <<registered, currentModel, isGenerating, hasError,
                 hasLoseContextExt, dismissT1, dismissT2, retriedSinceLoss>>

\* the retry timer set by handleContextLost fires
RetryTimerFire ==
  /\ retryTimer # 0
  /\ retryCount < MaxRetryCount
  /\ SceneCommit(FlushEffects(St, retryTimerCallback(St, registered),
                         currentModel, FALSE), "RetryTimerFire")
  /\ retriedSinceLoss' = TRUE
  /\ UNCHANGED <<registered, currentModel, isGenerating, hasError,
                 hasLoseContextExt, dismissT1, dismissT2>>

\* ErrorBoundary catches a render error of the canvas subtree:
\* getDerivedStateFromError, then componentDidCatch -> onError = handleError
BoundaryCatch ==
  /\ ~hasError
  /\ hasError' = TRUE
  /\ SceneCommit(FlushEffects(St, handleError(St), currentModel, FALSE),
            "BoundaryCatch")
  /\ UNCHANGED <<registered, currentModel, isGenerating, hasLoseContextExt,
                 dismissT1, dismissT2, retriedSinceLoss>>

\* click on Dismiss in the error banner
DismissClick ==
  /\ error # "none"
  /\ dismissT1 < MaxDismissTimers
  /\ dismissT1' = dismissT1 + 1
  /\ SceneCommit(FlushEffects(St, dismissClick(St), currentModel, FALSE),
            "DismissClick")
  /\ UNCHANGED <<registered, currentModel, isGenerating, hasError,
                 hasLoseContextExt, dismissT2, retriedSinceLoss>>

\* outer timer of Dismiss: setIsLoading(true), starts the inner timer
DismissTimer1 ==
  /\ dismissT1 > 0
  /\ dismissT2 < MaxDismissTimers
  /\ dismissT1' = dismissT1 - 1
  /\ dismissT2' = dismissT2 + 1
  /\ SceneCommit([St EXCEPT !.isLoading = TRUE], "DismissTimer1")
  /\ UNCHANGED <<registered, currentModel, isGenerating, hasError,
                 hasLoseContextExt, retriedSinceLoss>>

\* inner timer of Dismiss: setIsLoading(false)
DismissTimer2 ==
  /\ dismissT2 > 0
  /\ dismissT2' = dismissT2 - 1
  /\ SceneCommit([St EXCEPT !.isLoading = FALSE], "DismissTimer2")
  /\ UNCHANGED <<registered, currentModel, isGenerating, hasError,
                 hasLoseContextExt, dismissT1, retriedSinceLoss>>

\* "Refresh Now": window.location.reload() starts the page again; whether the
\* browser offers the extension does not change.
Reload ==
  /\ contextLost
  /\ retryCount >= maxRetries
  /\ error' = "none"
  /\ fallbackToDefault' = FALSE
  /\ isLoading' = TRUE
  /\ contextLost' = FALSE
  /\ retryCount' = 0
  /\ renderQuality' = HighQuality
  /\ retryTimer' = 0
  /\ registered' = [retryCount |-> 0, renderQuality |-> HighQuality]
  /\ currentModel' = 0
  /\ isGenerating' = FALSE
  /\ hasError' = FALSE
  /\ glLost' = FALSE
  /\ lostEvtPending' = FALSE
  /\ restoreTimers' = 0
  /\ dismissT1' = 0
  /\ dismissT2' = 0
  /\ last' = "Reload"
  /\ pre' = St
  /\ retriedSinceLoss' = FALSE
  /\ UNCHANGED hasLoseContextExt
  /\ UNCHANGED <<proxyVars, viewerVars, transformVars, extraVars>>

SceneNext ==
  \/ SetCurrentModel
  \/ SetGenerating
  \/ HostContextLost
  \/ ForcedContextLost
  \/ HostContextRestored
  \/ RestoreTimerFire
  \/ RetryTimerFire
  \/ BoundaryCatch
  \/ DismissClick
  \/ DismissTimer1
  \/ DismissTimer2
  \/ Reload

\* ---------------------------------------------------------------------
\* Render Context Manager: claims
\* ---------------------------------------------------------------------
LossSteps == {"HostContextLost", "ForcedContextLost"}
RestoredSteps == {"HostContextRestored", "RestoreTimerFire"}

\* C1: a loss event handled when retryCount has reached maxRetries sets the
\* "could not be restored" error and leaves no retry timer pending.
CE_C1_AbandonAtMaxRetries ==
  (last \in LossSteps /\ pre.retryCount >= maxRetries)
    => (error = "exhausted" /\ retryTimer = 0)

\* C2: retryCount stays within 0..maxRetries in every reachable state.
CE_C2_RetryCountBounded == retryCount \in 0..maxRetries

\* C4: a loss event handled while retryCount < maxRetries schedules the retry
\* after min(1000 * 2^retryCount, 8000) ms, retryCount being the live count
\* (stated for the steps that leave the timer pending).
CE_C4_DelayFollowsRetryCount ==
  (last \in LossSteps /\ pre.retryCount < maxRetries /\ retryTimer # 0)
    => retryTimer = Min(BaseDelay * Pow2(pre.retryCount), MaxDelay)

\* C5: the first, second and third loss of a run of failed attempts schedule
\* 1000, 2000 and 4000 ms: the delay grows, it does not stay at 1000 ms.
DelayTable == <<1000, 2000, 4000>>

CE_C5_DelaysGrow ==
  (last \in LossSteps /\ retryTimer # 0 /\ pre.retryCount \in 0..2)
    => /\ retryTimer = DelayTable[pre.retryCount + 1]
       /\ (pre.retryCount > 0 => retryTimer > DelayTable[1])

\* C6: a restoration event leaves retryCount = 0, no error, contextLost false
\* and no retry timer pending.
Thm_C6_RestoredResets ==
  last \in RestoredSteps
    => (retryCount = 0 /\ error = "none" /\ ~contextLost /\ retryTimer = 0)

\* C6 witness: a restoration that found a retry count, an error, the lost
\* flag and a pending retry timer to clear.
Wit_C6_RestoredResets ==
  /\ last = "HostContextRestored"
  /\ pre.retryCount > 0 /\ pre.error # "none"
  /\ pre.contextLost /\ pre.retryTimer # 0
  /\ retryCount = 0 /\ error = "none" /\ ~contextLost /\ retryTimer = 0

\* C7: loss, then restoration before any retry timer fired, with a current
\* asset: afterwards retryCount = 0, the quality is unchanged and the asset
\* is shown as the asset, with no error or fallback left behind.
CE_C7_RestoreBeforeRetryKeepsAsset ==
  (/\ last \in RestoredSteps
   /\ pre.glLost /\ ~pre.lostEvtPending /\ ~retriedSinceLoss
   /\ currentModel # 0 /\ ~isGenerating /\ ~hasError)
    => (/\ retryCount = 0
        /\ renderQuality = pre.renderQuality
        /\ error = "none" /\ ~fallbackToDefault
        /\ View = "model")

\* C8: a restoration attempt made with retryCount >= 1 lowers the render
\* quality; the first attempt (retryCount = 0) does not.
CE_C8_QualityReducedAfterFirstFailure ==
  last = "RetryTimerFire"
    => /\ (pre.retryCount >= 1 => renderQuality = LowQuality)
       /\ (pre.retryCount = 0 => renderQuality = pre.renderQuality)

\* ---------------------------------------------------------------------
\* Transfer proxies.  Three handlers serve /proxy-model in the repository:
\*   "edge": supabase/functions/proxy-model/index.ts (Deno.serve handler)
\*   "api" : the Express-style handler(req, res) (query url, token)
\*   "fn"  : proxyModel(req) served by serve(handleCors)
\* A url is a record: its host, whether the text "meshy.ai" occurs in its
\* path, its file extension and whether a query string follows the path.
\* ---------------------------------------------------------------------
ProviderHost == "assets.meshy.ai"
OtherHost == "cdn.example.com"
Extensions == {".glb", ".gltf", ".obj", ".fbx", ".stl", ".bin"}
Urls == [host : {ProviderHost, OtherHost}, pathHasMeshy : BOOLEAN,
         ext : Extensions, hasQuery : BOOLEAN]
NoUrl == [host |-> "", pathHasMeshy |-> FALSE, ext |-> "", hasQuery |-> FALSE]
NoToken == "notoken"
CallerTokens == {"userTokenA", "userTokenB"}
ServerKey == "meshyServerKey"
Absent == "absent"
NoAuth == <<>>
Impls == {"edge", "api", "fn"}
UpstreamStatuses == {200, 404, 502}
UpstreamTypes == {Absent, "model/gltf-binary", "text/plain"}
NoReq == [impl |-> "edge", method |-> "GET", url |-> NoUrl,
          token |-> NoToken, authHeader |-> NoToken]
NoResp == [status |-> 0, contentType |-> Absent, body |-> {}]
NoFetch == [fetched |-> FALSE, status |-> 0, contentType |-> Absent]

\* modelUrl.includes("meshy.ai")
IncludesMeshy(url) == url.host = ProviderHost \/ url.pathHasMeshy

\* `Bearer ${x}`
Bearer(x) == <<"Bearer", x>>

\* edge function: the Authorization header of the upstream request
edgeAuthorization(req, key) ==
  IF IncludesMeshy(req.url)
    THEN IF key # "" THEN Bearer(key) ELSE NoAuth
    ELSE IF req.token # NoToken THEN Bearer(req.token) ELSE NoAuth

\* handler(req, res): if (token) headers['Authorization'] = `Bearer ${token}`
apiAuthorization(req) ==
  IF req.token # NoToken THEN Bearer(req.token) ELSE NoAuth

\* proxyModel(req): the Authorization header of the request is passed on
fnAuthorization(req) ==
  IF req.authHeader # NoToken THEN Bearer(req.authHeader) ELSE NoAuth

upstreamAuthorization(req, key) ==
  CASE req.impl = "edge" -> edgeAuthorization(req, key)
    [] req.impl = "api" -> apiAuthorization(req)
    [] OTHER -> fnAuthorization(req)

\* modelUrl.endsWith(e): the url text ends with the extension only when no
\* query string follows it
EndsWith(url, e) == ~url.hasQuery /\ url.ext = e

\* edge function: content type from the extension of the url
extensionContentType(url) ==
  IF EndsWith(url, ".glb") THEN "model/gltf-binary"
  ELSE IF EndsWith(url, ".gltf") THEN "model/gltf+json"
  ELSE IF EndsWith(url, ".obj") THEN "model/obj"
  ELSE IF EndsWith(url, ".fbx") THEN "model/fbx"
  ELSE IF EndsWith(url, ".stl") THEN "model/stl"
  ELSE "application/octet-stream"

\* edge function answering every upstream failure with 500
edgeResponseMasked(req, status, ctype) ==
  IF status \notin 200..299
    THEN [status |-> 500, contentType |-> "application/json",
          body |-> {"error", "details"}]
    ELSE [status |-> 200,
          contentType |-> IF ctype # Absent THEN ctype
                          ELSE extensionContentType(req.url),
          body |-> {"binary"}]

\* the response of a handler to the reply of the upstream fetch
edgeResponse(req, status, ctype) ==
  IF status \notin 200..299
    THEN [status |-> status, contentType |-> "application/json",
          body |-> {"error", "details"}]
    ELSE [status |-> 200,
          contentType |-> IF ctype # Absent THEN ctype
                          ELSE extensionContentType(req.url),
          body |-> {"binary"}]

\* handler(req, res) and proxyModel(req): a failed fetch is thrown and caught
legacyResponse(req, status, ctype) ==
  IF status \notin 200..299
    THEN [status |-> 500, contentType |-> "application/json",
          body |-> {"error", "message"}]
    ELSE [status |-> 200,
          contentType |-> IF ctype # Absent THEN ctype
                          ELSE "application/octet-stream",
          body |-> {"binary"}]

proxyResponse(req, status, ctype) ==
  IF req.impl = "edge" THEN edgeResponse(req, status, ctype)
  ELSE legacyResponse(req, status, ctype)

\* the catch block of each handler
proxyCatch(req) ==
  [status |-> 500, contentType |-> "application/json",
   body |-> IF req.impl = "edge" THEN {"error", "stack"}
            ELSE {"error", "message"}]

ProxyInit ==
  /\ proxyPc = "idle"
  /\ proxyReq = NoReq
  /\ MESHY_API_KEY \in {"", ServerKey}
  /\ upstreamAuth = NoAuth
  /\ proxyResp = NoResp
  /\ upstream = NoFetch

\* a request arrives: preflight, missing url, or the upstream fetch starts
ProxyReceive ==
  /\ proxyPc = "idle"
  /\ \E impl \in Impls, method \in {"GET", "OPTIONS"},
        url \in Urls \cup {NoUrl}, token \in CallerTokens \cup {NoToken},
        authHeader \in {"userTokenA", NoToken} :
       LET req == [impl |-> impl, method |-> method, url |-> url,
                   token |-> token, authHeader |-> authHeader]
       IN /\ proxyReq' = req
          /\ IF method = "OPTIONS" /\ impl # "api"
               THEN /\ proxyPc' = "done"
                    /\ upstreamAuth' = NoAuth
                    /\ proxyResp' = [status |-> 204, contentType |-> Absent,
                                     body |-> {}]
               ELSE IF url = NoUrl
                 THEN /\ proxyPc' = "done"
                      /\ upstreamAuth' = NoAuth
                      /\ proxyResp' = [status |-> 400,
                                       contentType |-> "application/json",
                                       body |-> {"error"}]
                 ELSE /\ proxyPc' = "fetching"
                      /\ upstreamAuth' = upstreamAuthorization(req,
                                                               MESHY_API_KEY)
                      /\ proxyResp' = NoResp
          /\ upstream' = [NoFetch EXCEPT !.fetched =
                            ~(method = "OPTIONS" /\ impl # "api") /\ url # NoUrl]
  /\ UNCHANGED MESHY_API_KEY
  /\ UNCHANGED <<sceneVars, viewerVars, transformVars, extraVars>>

\* the upstream answers
ProxyUpstreamReply ==
  /\ proxyPc = "fetching"
  /\ \E status \in UpstreamStatuses, ctype \in UpstreamTypes :
       /\ proxyResp' = proxyResponse(proxyReq, status, ctype)
       /\ upstream' = [fetched |-> TRUE, status |-> status,
                       contentType |-> ctype]
  /\ proxyPc' = "done"
  /\ UNCHANGED <<proxyReq, MESHY_API_KEY, upstreamAuth>>
  /\ UNCHANGED <<sceneVars, viewerVars, transformVars, extraVars>>

\* the upstream fetch throws (network error)
ProxyUpstreamThrows ==
  /\ proxyPc = "fetching"
  /\ proxyResp' = proxyCatch(proxyReq)
  /\ proxyPc' = "done"
  /\ UNCHANGED <<proxyReq, MESHY_API_KEY, upstreamAuth, upstream>>
  /\ UNCHANGED <<sceneVars, viewerVars, transformVars, extraVars>>

\* the handler is ready for the next request
ProxyNextRequest ==
  /\ proxyPc = "done"
  /\ proxyPc' = "idle"
  /\ proxyReq' = NoReq
  /\ upstreamAuth' = NoAuth
  /\ proxyResp' = NoResp
  /\ upstream' = NoFetch
  /\ UNCHANGED MESHY_API_KEY
  /\ UNCHANGED <<sceneVars, viewerVars, transformVars, extraVars>>

ProxyNext ==
  \/ ProxyReceive
  \/ ProxyUpstreamReply
  \/ ProxyUpstreamThrows
  \/ ProxyNextRequest

\* C10: whenever a proxy fetches from a known-provider (meshy.ai) host, the
\* Authorization header it sends upstream is the server-held credential or
\* absent, and never carries a token supplied by the caller.
CE_C10_CallerTokenNeverSentToProvider ==
  (proxyPc = "fetching" /\ proxyReq.url.host = ProviderHost)
    => /\ upstreamAuth \in {NoAuth, Bearer(ServerKey)}
       /\ \A tok \in CallerTokens : upstreamAuth # Bearer(tok)

\* the table of content types by file extension
typeOfExtension(ext) ==
  CASE ext = ".glb" -> "model/gltf-binary"
    [] ext = ".gltf" -> "model/gltf+json"
    [] ext = ".obj" -> "model/obj"
    [] ext = ".fbx" -> "model/fbx"
    [] ext = ".stl" -> "model/stl"
    [] OTHER -> "application/octet-stream"

\* C25: a 200 answer of the edge function carries the Content-Type the
\* upstream sent, and when the upstream sent none the type given by the
\* extension of the url (.glb, .gltf, .obj, .fbx, .stl, else octet-stream).
CE_C25_ContentTypeFromUpstreamOrExtension ==
  (proxyPc = "done" /\ proxyReq.impl = "edge" /\ upstream.fetched
     /\ proxyResp.status = 200)
    => proxyResp.contentType =
         IF upstream.contentType # Absent THEN upstream.contentType
         ELSE typeOfExtension(proxyReq.url.ext)

MaxTasks == 2
MaxLoading == 1
MaxSetups == 2

Slash == <<47>>                                         \* "/"
Http == <<104, 116, 116, 112>>                          \* "http"
MeshyAi == <<109, 101, 115, 104, 121, 46, 97, 105>>     \* "meshy.ai"
GoogleApis == <<115, 116, 111, 114, 97, 103, 101, 46, 103, 111, 111, 103, 108,
                101, 97, 112, 105, 115, 46, 99, 111, 109>>
                                                        \* "storage.googleapis.com"
CubePath == <<47, 109, 111, 100, 101, 108, 115, 47, 99, 117, 98, 101, 46, 103,
              108, 116, 102>>                           \* "/models/cube.gltf"

\* text.startsWith(p)
StartsWith(text, p) ==
  Len(text) >= Len(p) /\ SubSeq(text, 1, Len(p)) = p

\* text.includes(p)
Includes(text, p) ==
  \E i \in 1..(Len(text) - Len(p) + 1) : SubSeq(text, i, i + Len(p) - 1) = p

\* ---- the references the parent passes as url ----
MeshyPrefix == <<104, 116, 116, 112, 115, 58, 47, 47, 97, 115, 115, 101, 116,
                 115, 46>> \o MeshyAi \o Slash          \* "https://assets.meshy.ai/"
OtherPrefix == Http \o <<58, 47, 47, 120, 46, 105, 111, 47>>   \* "http://x.io/"
RelativePrefix == <<109, 47>>                           \* "m/"
LocalMeshyPrefix == Slash \o MeshyAi \o Slash           \* "/meshy.ai/"

\* the keys of "...aa?" and "...aa>" differ in their last base64 character
\* only ("/" and "+"); one reference has a character above U+00FF
Refs ==
  {MeshyPrefix \o <<97, 97, 63>>, MeshyPrefix \o <<97, 97, 62>>,
   OtherPrefix \o <<97>>, OtherPrefix \o <<8364>>,
   RelativePrefix \o <<97>>, LocalMeshyPrefix \o <<97>>}

\* the three-way test of setupModelUrl
IsKnownProvider(r) == Includes(r, MeshyAi) \/ Includes(r, GoogleApis)
IsUnknownExternal(r) == ~IsKnownProvider(r) /\ StartsWith(r, Http)
IsLocalPath(r) == ~IsKnownProvider(r) /\ ~StartsWith(r, Http)

\* ---- btoa and the cache key ----
\* characters of the base64 alphabet are named by their index 0..63
\* (62 = "+", 63 = "/"); the other characters of a key are:
PadChar == 64                                           \* "="
DashChar == 65                                          \* "-"
UnderscoreChar == 66                                    \* "_"

\* btoa throws InvalidCharacterError on a character above U+00FF
BtoaThrows(text) == \E i \in 1..Len(text) : text[i] > 255

RECURSIVE btoa(_)
btoa(text) ==
  IF Len(text) = 0 THEN <<>>
  ELSE IF Len(text) = 1
    THEN <<text[1] \div 4, (text[1] % 4) * 16, PadChar, PadChar>>
  ELSE IF Len(text) = 2
    THEN <<text[1] \div 4, ((text[1] % 4) * 16) + (text[2] \div 16),
           (text[2] % 16) * 4, PadChar>>
  ELSE <<text[1] \div 4, ((text[1] % 4) * 16) + (text[2] \div 16),
         ((text[2] % 16) * 4) + (text[3] \div 64), text[3] % 64>>
         \o btoa(SubSeq(text, 4, Len(text)))

\* .replace(/\+/g, '-').replace(/\//g, '_')
ReplaceBothWithDash(b64) ==
  [i \in 1..Len(b64) |->
     IF b64[i] \in {62, 63} THEN DashChar ELSE b64[i]]
ReplacePlusSlash(b64) ==
  [i \in 1..Len(b64) |->
     IF b64[i] = 62 THEN DashChar
     ELSE IF b64[i] = 63 THEN UnderscoreChar ELSE b64[i]]

\* .replace(/=+$/, '')
RECURSIVE StripPadding(_)
StripPadding(b64) ==
  IF Len(b64) > 0 /\ b64[Len(b64)] = PadChar
    THEN StripPadding(SubSeq(b64, 1, Len(b64) - 1))
    ELSE b64

\* `models/${...}`: the object path in bucket 'models'
cacheKey(externalUrl) ==
  [dir |-> "models", name |-> StripPadding(ReplacePlusSlash(btoa(externalUrl)))]

NoKey == [dir |-> "", name |-> <<>>]

\* ---- encodeURIComponent ----
HexDigit(n) == IF n < 10 THEN 48 + n ELSE 55 + n        \* "0".."9", "A".."F"
Percent(byte) == <<37, HexDigit(byte \div 16), HexDigit(byte % 16)>>
\* A-Z a-z 0-9 - _ . ! ~ * ' ( )
UriUnreserved ==
  (65..90) \cup (97..122) \cup (48..57) \cup {45, 95, 46, 33, 126, 42, 39, 40, 41}
EncodeChar(c) ==
  IF c \in UriUnreserved THEN <<c>>
  ELSE IF c < 128 THEN Percent(c)
  ELSE IF c < 2048
    THEN Percent(192 + (c \div 64)) \o Percent(128 + (c % 64))
  ELSE Percent(224 + (c \div 4096)) \o Percent(128 + ((c \div 64) % 64))
         \o Percent(128 + (c % 64))
RECURSIVE encodeURIComponent(_)
encodeURIComponent(text) ==
  IF Len(text) = 0 THEN <<>>
  ELSE EncodeChar(text[1]) \o encodeURIComponent(SubSeq(text, 2, Len(text)))

\* ---- the URLs handed to setModelUrl ----
\* kind "path": q is the URL itself; "proxy": /api/proxy-model?url=q;
\* "blob": object URL made from the cached object named q
PathUrl(text) == [kind |-> "path", q |-> text]
ProxyUrlDirect(externalUrl) == [kind |-> "path", q |-> externalUrl]
ProxyUrl(externalUrl) == [kind |-> "proxy", q |-> encodeURIComponent(externalUrl)]
BlobUrl(key) == [kind |-> "blob", q |-> key.name]
Cube == PathUrl(CubePath)
NoScene == [kind |-> "none", q |-> <<>>]

\* the local branch: url.startsWith('/') ? url : `/${url}`
localUrlOf(r) == IF StartsWith(r, Slash) THEN r ELSE Slash \o r

\* what the GLTF loader requests for a URL that is not in its cache
LoaderOp(u) ==
  IF u.kind = "proxy" THEN <<"proxyGet">>
  ELSE IF u.kind = "blob" THEN <<>>
  ELSE IF StartsWith(u.q, Slash) THEN <<"originGet">>
  ELSE <<"remoteGet">>

\* handleLoadingChange: setIsLoading(loading)
handleLoadingChange(s, loadingNow) == [s EXCEPT !.isLoading = loadingNow]

NoRef == <<>>
NoRes == [ref |-> NoRef, key |-> NoKey, ops |-> <<>>, ok |-> FALSE,
          hit |-> FALSE, again |-> FALSE, changed |-> FALSE, result |-> NoScene]

\* references for which cacheAndGetLocalUrl computes a cache key
KeyedRefs ==
  {r \in Refs : (IsKnownProvider(r) \/ StartsWith(r, Http))
                  /\ ~StartsWith(r, Slash) /\ ~BtoaThrows(r)}

\* the bucket is kept by the storage service across page sessions: a session
\* starts with it empty or holding an object under one of the keys
InitialCaches == {{}} \cup {{cacheKey(r)} : r \in KeyedRefs}

\* no ModelViewer has been mounted in this page session
ViewerStart ==
  /\ mvMounted = FALSE
  /\ urlProp = NoRef
  /\ modelUrl = Cube
  /\ tasks = <<>>
  /\ loading = {}
  /\ gltfScene = NoScene
  /\ loaderCache = {}
  /\ threeCacheFiles = {}
  /\ resLog = NoRes
  /\ setups = 0

sceneRest == <<registered, currentModel, isGenerating, hasLoseContextExt,
               dismissT1, dismissT2, retriedSinceLoss>>

RemoveAt(seq, i) == SubSeq(seq, 1, i - 1) \o SubSeq(seq, i + 1, Len(seq))

\* A setupModelUrl() call reaches its end.  t is the call, ok whether its try
\* block completed, localUrl the URL it resolved, ops the requests it made,
\* hit whether the cache lookup returned data (t.again: a scene for its url
\* was already kept when it started); mu, gs, s are modelUrl,
\* gltfScene and the ThreeScene state at that moment and rest the other
\* calls and lc the loader's kept scenes.  On success: setModelUrl(localUrl).
\* In the catch: onError, setModelUrl('/models/cube.gltf').  A call started by
\* an instance that has been unmounted finds its setters inert; onError is
\* ThreeScene's and still acts.  A changed modelUrl re-renders: useGLTF
\* returns the kept scene (the normalization effect then runs for the new
\* gltfScene and ends with onLoadingChange(false)) or suspends on a fetch.
Deliver(t, ok, localUrl, ops, hit, mu, gs, s, rest, lc, name) ==
  LET newUrl == IF ok THEN localUrl ELSE Cube
      chg == t.live /\ (newUrl.kind = "blob" \/ newUrl # mu)
      kept == newUrl.kind # "blob" /\ newUrl \in lc
      start == chg /\ ~kept /\ newUrl \notin loading
      norm == chg /\ kept /\ newUrl # gs
      s1 == IF ok THEN s ELSE handleError(s)
      s2 == IF norm THEN handleLoadingChange(s1, FALSE) ELSE s1
  IN /\ start => Cardinality(loading) < MaxLoading
     /\ tasks' = rest
     /\ modelUrl' = IF chg THEN newUrl ELSE mu
     /\ gltfScene' = IF norm THEN newUrl ELSE gs
     /\ loading' = IF start THEN loading \cup {newUrl} ELSE loading
     /\ resLog' = [ref |-> t.ref, key |-> t.key,
                   ops |-> IF start THEN ops \o LoaderOp(newUrl) ELSE ops,
                   ok |-> ok, hit |-> hit,
                   again |-> ok /\ t.again,
                   changed |-> chg, result |-> newUrl]
     /\ preCache' = contentCache
     /\ Commit(FlushEffects(St, s2, currentModel, FALSE), name)
     /\ loaderCache' = lc
     /\ UNCHANGED <<contentCache, threeCacheFiles, hasError,
                    sceneRest, transformVars, extraVars>>

\* the URLs a setupModelUrl() call for url r hands to setModelUrl when its
\* try block completes
successUrls(r) ==
  IF IsKnownProvider(r) \/ StartsWith(r, Http)
    THEN IF StartsWith(r, Slash) THEN {PathUrl(r)}
         ELSE IF BtoaThrows(r) THEN {}
         ELSE {BlobUrl(cacheKey(r)), ProxyUrl(r)}
    ELSE {PathUrl(localUrlOf(r))}

\* The setup effect for url r, run by the mounted instance: the synchronous
\* part of setupModelUrl up to its first request.  mu, gs, s, lc as in
\* Deliver, s already holding onLoadingChange(true).
\*  - Meshy / external branch: cacheAndGetLocalUrl returns a url that starts
\*    with "/" as it is; btoa may throw (outer catch: 'Failed to process
\*    model URL'); otherwise the call waits for storage.download(cacheKey).
\*  - local branch: the call waits for fetch(localUrl, HEAD).
RunSetup(r, mu, gs, s, lc, name, doneName) ==
  LET t == [ref |-> r, key |-> NoKey, pc |-> "start", live |-> TRUE,
            again |-> successUrls(r) \cap lc # {}]
      waitFor(task) ==
        /\ tasks' = Append(tasks, task)
        /\ modelUrl' = mu
        /\ gltfScene' = gs
        /\ loaderCache' = lc
        /\ preCache' = contentCache
        /\ Commit(FlushEffects(St, s, currentModel, FALSE), name)
        /\ UNCHANGED <<loading, contentCache, threeCacheFiles,
                       resLog, hasError, sceneRest, transformVars, extraVars>>
  IN IF IsKnownProvider(r) \/ StartsWith(r, Http)
       THEN IF StartsWith(r, Slash)
              THEN Deliver(t, TRUE, PathUrl(r), <<>>, FALSE, mu, gs, s, tasks,
                           lc, doneName)
            ELSE IF BtoaThrows(r)
              THEN Deliver(t, FALSE, NoScene, <<>>, FALSE, mu, gs, s, tasks,
                           lc, doneName)
            ELSE waitFor([t EXCEPT !.key = cacheKey(r), !.pc = "download"])
       ELSE waitFor([t EXCEPT !.pc = "head"])

\* the instance waits in Suspense for the loader to deliver modelUrl
Suspended == mvMounted /\ modelUrl \in loading

\* The parent mounts <ModelViewer url={r} .../>.  The first render calls
\* useGLTF('/models/cube.gltf'); the instance commits once that scene is
\* there, then its effects run: setupModelUrl (onLoadingChange(true)) and the
\* normalization of the cube (onLoadingChange(false)).
MvMount ==
  \E r \in Refs :
    /\ ~mvMounted
    /\ ~hasError
    /\ Len(tasks) < MaxTasks
    /\ setups < MaxSetups
    /\ setups' = setups + 1
    /\ mvMounted' = TRUE
    /\ urlProp' = r
    /\ RunSetup(r, Cube, Cube,
                handleLoadingChange(handleLoadingChange(St, TRUE), FALSE),
                loaderCache \cup {Cube}, "MvMount", "MvMountDone")

\* ... or the cube cannot be loaded: useGLTF throws into the ErrorBoundary
\* (getDerivedStateFromError, componentDidCatch -> handleError)
MvMountFail ==
  /\ ~mvMounted
  /\ ~hasError
  /\ Cube \notin loaderCache
  /\ hasError' = TRUE
  /\ preCache' = contentCache
  /\ Commit(FlushEffects(St, handleError(St), currentModel, FALSE),
            "MvMountFail")
  /\ UNCHANGED <<mvMounted, urlProp, modelUrl, tasks, loading, gltfScene,
                 loaderCache, contentCache, threeCacheFiles,
                 resLog, sceneRest, transformVars, extraVars, setups>>

\* The parent re-renders the mounted instance with another url: the setup
\* effect runs again (deps [url, ...]); nothing cancels the earlier calls.
\* A suspended instance runs the effect at the commit that follows the load.
MvSetUrl ==
  \E r \in Refs :
    /\ mvMounted
    /\ ~Suspended
    /\ r # urlProp
    /\ Len(tasks) < MaxTasks
    /\ setups < MaxSetups
    /\ setups' = setups + 1
    /\ urlProp' = r
    /\ UNCHANGED mvMounted
    /\ RunSetup(r, modelUrl, gltfScene, handleLoadingChange(St, TRUE),
                loaderCache, "MvSetUrl", "MvSetUrlDone")

\* The parent stops rendering the instance: its state is gone, the calls it
\* started keep running with inert setters.
MvUnmount ==
  /\ mvMounted
  /\ mvMounted' = FALSE
  /\ urlProp' = NoRef
  /\ modelUrl' = Cube
  /\ gltfScene' = NoScene
  /\ tasks' = [i \in 1..Len(tasks) |-> [tasks[i] EXCEPT !.live = FALSE]]
  /\ preCache' = contentCache
  /\ Commit(St, "MvUnmount")
  /\ UNCHANGED <<loading, loaderCache, contentCache, threeCacheFiles, resLog,
                 hasError, sceneRest, transformVars, extraVars, setups>>

\* supabase.storage.from('models').download(cacheKey) answers: data only if
\* the object exists; no data, or a rejection that the inner catch swallows,
\* at any time.  With data the call returns URL.createObjectURL(data), else
\* the proxy URL.
TaskDownloadDone ==
  \E i \in 1..Len(tasks), data \in BOOLEAN :
    /\ tasks[i].pc = "download"
    /\ data => tasks[i].key \in contentCache
    /\ Deliver(tasks[i], TRUE,
               IF data THEN BlobUrl(tasks[i].key) ELSE ProxyUrl(tasks[i].ref),
               <<"cacheDownload">>, data, modelUrl, gltfScene, St,
               RemoveAt(tasks, i), loaderCache, "TaskDownloadDone")
    /\ UNCHANGED <<mvMounted, urlProp, setups>>

\* TaskHeadDone with setModelUrl(localUrl) whatever the response
TaskHeadDoneUnchecked ==
  \E i \in 1..Len(tasks), responseOk \in BOOLEAN :
    /\ tasks[i].pc = "head"
    /\ Deliver(tasks[i], TRUE, PathUrl(localUrlOf(tasks[i].ref)),
               <<IF responseOk THEN "originHead" ELSE "originHeadFailed">>,
               FALSE, modelUrl, gltfScene, St,
               RemoveAt(tasks, i), loaderCache, "TaskHeadDone")
    /\ UNCHANGED <<mvMounted, urlProp, setups>>
\* fetch(localUrl, {method: 'HEAD'}) answers: setModelUrl(localUrl) if
\* response.ok, else (also when fetch rejects) 'Local model not found'
TaskHeadDone ==
  \E i \in 1..Len(tasks), responseOk \in BOOLEAN :
    /\ tasks[i].pc = "head"
    /\ Deliver(tasks[i], responseOk, PathUrl(localUrlOf(tasks[i].ref)),
               <<IF responseOk THEN "originHead" ELSE "originHeadFailed">>,
               FALSE, modelUrl, gltfScene, St,
               RemoveAt(tasks, i), loaderCache, "TaskHeadDone")
    /\ UNCHANGED <<mvMounted, urlProp, setups>>

\* The loader finishes a URL: useGLTF keeps the scene for the page session.
\* An instance suspended on that URL commits with the new gltfScene and the
\* normalization effect ends with onLoadingChange(false).
LoaderOk ==
  \E u \in loading :
    /\ loading' = loading \ {u}
    /\ loaderCache' = IF u.kind = "blob" THEN loaderCache
                      ELSE loaderCache \cup {u}
    /\ preCache' = contentCache
    /\ IF mvMounted /\ modelUrl = u
         THEN /\ gltfScene' = u
              /\ Commit(FlushEffects(St, handleLoadingChange(St, FALSE),
                                     currentModel, FALSE), "LoaderOk")
         ELSE /\ gltfScene' = gltfScene
              /\ Commit(St, "LoaderOkUnused")
    /\ UNCHANGED <<mvMounted, urlProp, modelUrl, tasks, contentCache,
                   threeCacheFiles, resLog, hasError, sceneRest,
                   transformVars, extraVars, setups>>

\* The loader fails on a URL (fetch error, non-2xx, content that does not
\* parse).  For the instance suspended on it, either the function passed as
\* fourth argument of useGLTF runs as the code intends (onError,
\* onLoadingChange(false)), or useGLTF throws while rendering and the
\* ErrorBoundary replaces the canvas subtree (componentDidCatch -> onError).
LoaderFail ==
  \E u \in loading, thrown \in BOOLEAN :
    /\ loading' = loading \ {u}
    /\ preCache' = contentCache
    /\ IF mvMounted /\ modelUrl = u
         THEN IF thrown
                THEN /\ hasError' = TRUE
                     /\ mvMounted' = FALSE
                     /\ urlProp' = NoRef
                     /\ modelUrl' = Cube
                     /\ gltfScene' = NoScene
                     /\ tasks' = [i \in 1..Len(tasks) |->
                                    [tasks[i] EXCEPT !.live = FALSE]]
                     /\ Commit(FlushEffects(St, handleError(St), currentModel,
                                            FALSE), "LoaderFailThrown")
                ELSE /\ Commit(FlushEffects(St,
                                 handleLoadingChange(handleError(St), FALSE),
                                 currentModel, FALSE), "LoaderFailCallback")
                     /\ UNCHANGED <<hasError, mvMounted, urlProp, modelUrl,
                                    gltfScene, tasks>>
         ELSE /\ Commit(St, "LoaderFailUnused")
              /\ UNCHANGED <<hasError, mvMounted, urlProp, modelUrl, gltfScene,
                             tasks>>
    /\ UNCHANGED <<loaderCache, contentCache, threeCacheFiles,
                   resLog, sceneRest, transformVars, extraVars, setups>>

\* deleteFile('models', path) of src/lib/storage.ts: storage.remove([path])
DeleteFile ==
  \E k \in contentCache :
    /\ contentCache' = contentCache \ {k}
    /\ preCache' = contentCache
    /\ Commit(St, "DeleteFile")
    /\ UNCHANGED <<mvMounted, urlProp, modelUrl, tasks, loading, gltfScene,
                   loaderCache, threeCacheFiles, resLog, hasError,
                   sceneRest, transformVars, extraVars, setups>>

\* THREE.Cache.clear(), called by cleanupMemory when the asset is switched
\* and by PerformanceMonitor when fps < 20.  THREE.Cache.enabled is never
\* set, so the loaders add nothing to it.
ThreeCacheClear ==
  /\ threeCacheFiles' = {}
  /\ preCache' = contentCache
  /\ Commit(St, "ThreeCacheClear")
  /\ UNCHANGED <<mvMounted, urlProp, modelUrl, tasks, loading, gltfScene,
                 loaderCache, contentCache, resLog, hasError,
                 sceneRest, transformVars, extraVars, setups>>

\* The browser loads the page again: components, pending calls and the
\* loader's scenes are gone; the bucket keeps its objects.
MvPageReload ==
  /\ mvMounted' = FALSE
  /\ urlProp' = NoRef
  /\ modelUrl' = Cube
  /\ tasks' = <<>>
  /\ loading' = {}
  /\ gltfScene' = NoScene
  /\ loaderCache' = {}
  /\ threeCacheFiles' = {}
  /\ resLog' = NoRes
  /\ hasError' = FALSE
  /\ preCache' = contentCache
  /\ Commit([St EXCEPT !.error = "none", !.fallbackToDefault = FALSE,
                       !.isLoading = TRUE], "MvPageReload")
  /\ setups' = 0
  /\ UNCHANGED <<contentCache, sceneRest, transformVars, extraVars>>

ViewerNext ==
  \/ MvMount
  \/ MvMountFail
  \/ MvSetUrl
  \/ MvUnmount
  \/ TaskDownloadDone
  \/ TaskHeadDone
  \/ LoaderOk
  \/ LoaderFail
  \/ DeleteFile
  \/ ThreeCacheClear
  \/ MvPageReload

\* ---- claims about the resolution ----
ResolveDoneSteps ==
  {"MvMountDone", "MvSetUrlDone", "TaskDownloadDone", "TaskHeadDone"}

OpsAt(o) == {i \in 1..Len(resLog.ops) : resLog.ops[i] = o}
DirectOps == {"remoteHead", "remoteGet"}
HeadOps == {"originHead", "originHeadFailed"}
FetchOps == DirectOps \cup HeadOps \cup {"originGet", "proxyGet"}

\* C11: a resolution that completes for a url other than the current url prop
\* (the reference changed while it was in flight) does not change modelUrl,
\* and once no call of the mounted instance is in flight modelUrl is a URL
\* resolved for the current url prop (or the placeholder after a failure).
CE_C11_StaleResolutionDropped ==
  /\ (last \in ResolveDoneSteps /\ mvMounted /\ resLog.ref # urlProp)
       => ~resLog.changed
  /\ (mvMounted /\ \A i \in 1..Len(tasks) : ~tasks[i].live)
       => modelUrl \in successUrls(urlProp) \cup {Cube}

\* C12: after a step in which the resolution fails or the loader fails on the
\* URL on display, error is set, isLoading is false, fallbackToDefault is
\* true and the canvas shows the placeholder (of the render selection or of
\* the ErrorBoundary).
Thm_C12_FailureShowsPlaceholder ==
  (\/ last \in ResolveDoneSteps /\ ~resLog.ok
   \/ last \in {"LoaderFailCallback", "LoaderFailThrown", "MvMountFail"})
    => /\ error = "load"
       /\ ~isLoading
       /\ fallbackToDefault
       /\ View \in {"placeholder", "boundaryPlaceholder"}

Wit_C12_FailureShowsPlaceholder ==
  /\ last \in ResolveDoneSteps
  /\ ~resLog.ok
  /\ pre.isLoading
  /\ error = "load"
  /\ View = "placeholder"

\* C13: when a model with a url is current and nothing is pending or failed in
\* ThreeScene (no error, no fallback, no context loss, no timer, no
\* generation), the render selection shows ModelViewer.
CE_C13_LoadedAssetDisplayed ==
  (/\ currentModel # 0
   /\ error = "none"
   /\ ~fallbackToDefault
   /\ ~isGenerating
   /\ ~hasError
   /\ ~contextLost
   /\ ~glLost
   /\ ~lostEvtPending
   /\ retryTimer = 0
   /\ restoreTimers = 0
   /\ dismissT1 = 0
   /\ dismissT2 = 0)
    => View = "model"

\* C14: a resolution of an unknown external reference that looked the
\* reference up in the cache and missed made a direct probe of the reference
\* before any request to the proxy, and at most one request to the proxy.
CE_C14_DirectProbeThenProxyOnce ==
  (/\ last \in ResolveDoneSteps
   /\ IsUnknownExternal(resLog.ref)
   /\ OpsAt("cacheDownload") # {}
   /\ ~resLog.hit)
    => /\ \E i \in 1..Len(resLog.ops) :
            /\ resLog.ops[i] \in DirectOps
            /\ \A j \in OpsAt("proxyGet") : i < j
       /\ Cardinality(OpsAt("proxyGet")) <= 1

\* C15: a resolution of a known-provider reference makes no direct request to
\* the remote host, the loader never fetches a remote URL directly, and after
\* a cache miss the only other request is the one to the proxy.
Thm_C15_ProviderOnlyThroughProxy ==
  /\ \A u \in loading : LoaderOp(u) # <<"remoteGet">>
  /\ (last \in ResolveDoneSteps /\ IsKnownProvider(resLog.ref))
       => /\ \A i \in 1..Len(resLog.ops) : resLog.ops[i] \notin DirectOps
          /\ (OpsAt("cacheDownload") # {} /\ ~resLog.hit)
               => \A i \in 1..Len(resLog.ops) :
                    resLog.ops[i] \in {"cacheDownload", "proxyGet"}

Wit_C15_ProviderOnlyThroughProxy ==
  /\ last = "TaskDownloadDone"
  /\ IsKnownProvider(resLog.ref)
  /\ ~resLog.hit
  /\ resLog.ops = <<"cacheDownload", "proxyGet">>
  /\ modelUrl = ProxyUrl(resLog.ref)

\* C16: a resolution of a local path makes exactly one HEAD request and no
\* request to the cache or the proxy; when the HEAD check fails the
\* resolution fails (error set, modelUrl not set to the local path), and
\* the local path is handed to setModelUrl only by a resolution that
\* succeeded.  A call for a local path waits on its HEAD request only.
Thm_C16_LocalPathHeadCheck ==
  /\ \A i \in 1..Len(tasks) :
       IsLocalPath(tasks[i].ref) => tasks[i].pc = "head" /\ tasks[i].key = NoKey
  /\ (last \in ResolveDoneSteps /\ IsLocalPath(resLog.ref))
       => /\ Len(resLog.ops) >= 1
          /\ resLog.ops[1] \in HeadOps
          /\ \A i \in 2..Len(resLog.ops) : resLog.ops[i] = "originGet"
          /\ OpsAt("originHeadFailed") # {}
               => /\ ~resLog.ok
                  /\ resLog.ops = <<"originHeadFailed">>
                  /\ resLog.result = Cube
                  /\ error = "load"
          /\ resLog.result = PathUrl(localUrlOf(resLog.ref)) => resLog.ok

Wit_C16_LocalPathHeadCheck ==
  /\ last = "TaskHeadDone"
  /\ IsLocalPath(resLog.ref)
  /\ resLog.ops = <<"originHeadFailed">>
  /\ ~resLog.ok
  /\ mvMounted
  /\ modelUrl = Cube

\* C17: when the loader has delivered the scene of the proxy URL resolved for
\* the current url prop, the bucket holds an object under that url's key.
CE_C17_CacheFilledOnSuccess ==
  (last = "LoaderOk" /\ urlProp \in KeyedRefs /\ modelUrl = ProxyUrl(urlProp))
    => cacheKey(urlProp) \in contentCache

\* C18: a resolution that started when the scene of its url was already
\* loaded in this page session, and that succeeds, makes no HEAD or GET
\* request for the asset, neither direct nor through the proxy.
CE_C18_SecondResolveFetchesNothing ==
  (last \in ResolveDoneSteps /\ resLog.again)
    => \A i \in 1..Len(resLog.ops) : resLog.ops[i] \notin FetchOps

\* C19: two calls in flight (or the last completed one) have the same cache
\* key exactly when they have the same url, and no step other than
\* deleteFile removes an object from the bucket.
Thm_C19_KeysDistinctNoSilentEviction ==
  /\ \A i, j \in 1..Len(tasks) :
       (tasks[i].pc = "download" /\ tasks[j].pc = "download")
         => (tasks[i].key = tasks[j].key <=> tasks[i].ref = tasks[j].ref)
  /\ \A i \in 1..Len(tasks) :
       (tasks[i].pc = "download" /\ resLog.key # NoKey)
         => (tasks[i].key = resLog.key <=> tasks[i].ref = resLog.ref)
  /\ last # "DeleteFile" => preCache \subseteq contentCache

Wit_C19_KeysDistinctNoSilentEviction ==
  /\ last = "TaskDownloadDone"
  /\ resLog.hit
  /\ resLog.key \in contentCache
  /\ \E i \in 1..Len(tasks) :
       tasks[i].pc = "download" /\ tasks[i].ref # resLog.ref

\* ======================================================================
\* The transform effect of ModelViewer (effect on [gltfScene, transform])
\* ======================================================================

MaxApplied == 3

\* transform.scale in halves (1 = 0.5x, 2 = 1x, 4 = 2x), angles in degrees
Transforms ==
  [scale : {1, 2, 4}, rotationX : {0, 90}, rotationY : {0}, rotationZ : {0},
   color : {"", "#ffffff", "#ff0000"}, wireframe : BOOLEAN]

\* the initial state of ModelEditor
DefaultTransform ==
  [scale |-> 2, rotationX |-> 0, rotationY |-> 0, rotationZ |-> 0,
   color |-> "#ffffff", wireframe |-> FALSE]

\* largest raw bounding-box dimension of the loaded asset
RawDims == {1, 2}

\* the scene as the normalization effect leaves a freshly loaded asset:
\* scale.set(2 / maxDim), in sixteenths; rotation and materials as loaded
Normalized(d) ==
  [scale |-> 32 \div d, rotation |-> <<0, 0, 0>>, color |-> "asset",
   wireframe |-> FALSE]

Obj ==
  [scale |-> objScale, rotation |-> objRotation, color |-> objColor,
   wireframe |-> objWireframe]

\* body of the transform effect: scale.multiplyScalar(transform.scale),
\* rotation.x/y/z = degToRad(...), color if transform.color, wireframe
applyTransform(o, T) ==
  [scale |-> (o.scale * T.scale) \div 2,
   rotation |-> <<T.rotationX, T.rotationY, T.rotationZ>>,
   color |-> IF T.color # "" THEN T.color ELSE o.color,
   wireframe |-> T.wireframe]

\* the commit that first shows the loaded scene: normalization effect, then
\* transform effect with the transform prop of that render
TransformStart(d, T) ==
  /\ rawDim = d
  /\ transform = T
  /\ objScale = applyTransform(Normalized(d), T).scale
  /\ objRotation = applyTransform(Normalized(d), T).rotation
  /\ objColor = applyTransform(Normalized(d), T).color
  /\ objWireframe = applyTransform(Normalized(d), T).wireframe
  /\ applied = <<T>>

\* The parent passes a transform object of another identity (ModelEditor
\* builds a new object on every change and on Reset, whatever its values):
\* the transform effect runs again on the same scene object.
TfSetTransform ==
  \E T \in Transforms :
    /\ Len(applied) < MaxApplied
    /\ transform' = T
    /\ objScale' = applyTransform(Obj, T).scale
    /\ objRotation' = applyTransform(Obj, T).rotation
    /\ objColor' = applyTransform(Obj, T).color
    /\ objWireframe' = applyTransform(Obj, T).wireframe
    /\ applied' = Append(applied, T)
    /\ UNCHANGED <<rawDim, rawCenter, objPosition, normDim, normCenter,
                   sceneVars, proxyVars, viewerVars, extraVars>>

\* x of the centre of the raw bounding box, in asset units
RawCenters == {0, 1}

\* the normalization effect on the scene object as it is now:
\* Box3.setFromObject measures the world box of the object, with the scale
\* and position it carries; scale = maxDim > 0 ? 2 / maxDim : 1 and
\* position = -center * scale are then set absolutely (sixteenths)
worldDim(d, sc) == d * sc
worldCenter(c, sc, pos) == (c * sc) + pos
normScale(maxDim) == IF maxDim > 0 THEN 512 \div maxDim ELSE 16
normPosition(center, sc) == 0 - ((center * sc) \div 16)

\* placement of a freshly loaded scene object (scale 1, position 0) by the
\* normalization effect
PlacementStart(d, c) ==
  /\ rawCenter = c
  /\ objPosition = normPosition(worldCenter(c, 16, 0), normScale(worldDim(d, 16)))
  /\ normDim = worldDim(d, normScale(worldDim(d, 16)))
  /\ normCenter =
       worldCenter(c, normScale(worldDim(d, 16)),
                   normPosition(worldCenter(c, 16, 0), normScale(worldDim(d, 16))))

\* ModelViewer is unmounted and mounted again with the same url: useGLTF
\* returns the scene object it keeps for that url, the normalization effect
\* runs on it, then the transform effect with the current transform prop.
TfRemount ==
  LET maxDim == worldDim(rawDim, objScale)
      center == worldCenter(rawCenter, objScale, objPosition)
      sc     == normScale(maxDim)
      pos    == normPosition(center, sc)
      o      == [Obj EXCEPT !.scale = sc]
  IN  /\ Len(applied) < MaxApplied
      /\ objPosition' = pos
      /\ normDim' = worldDim(rawDim, sc)
      /\ normCenter' = worldCenter(rawCenter, sc, pos)
      /\ objScale' = applyTransform(o, transform).scale
      /\ objRotation' = applyTransform(o, transform).rotation
      /\ objColor' = applyTransform(o, transform).color
      /\ objWireframe' = applyTransform(o, transform).wireframe
      /\ applied' = Append(applied, transform)
      /\ UNCHANGED <<rawDim, rawCenter, transform, sceneVars, proxyVars,
                     viewerVars, extraVars>>

TransformNext == TfSetTransform \/ TfRemount

\* C20: the scale, rotation, tint and wireframe of the scene are those of the
\* normalized scene with the transform applied last applied once, however
\* many transforms (equal or different) were applied before.
CE_C20_TransformIdempotent ==
  Len(applied) >= 1
    => Obj = applyTransform(Normalized(rawDim), applied[Len(applied)])

\* C21: after every normalization of the scene object (the first and every
\* later one) its largest bounding-box dimension is 2 (32 sixteenths) and
\* the centre of its bounding box is at the origin.
CE_C21_NormalizedAfterEveryLoad == normDim = 32 /\ normCenter = 0

\* ======================================================================
\* The scene graph of the Canvas and disposeUnusedObjects (onCreated)
\* ======================================================================

MaxReclaimRuns == 2

\* the root scene of the Canvas and the objects mounted under it
SceneRoot == "scene"
NoParent == "null"
SgNodes == {"group", "mesh"}
isMesh(n) == n = "mesh"

\* Object3D.traverse: the object itself, then its children, recursively
RECURSIVE Traversed(_, _)
Traversed(x, depth) ==
  {x} \cup
    (IF depth = 0 THEN {}
     ELSE UNION {Traversed(n, depth - 1) : n \in {m \in SgNodes : sgParent[m] = x}})

\* the objects scene.traverse visits
Reachable == Traversed(SceneRoot, Cardinality(SgNodes)) \ {SceneRoot}

\* the test of disposeUnusedObjects without the parent check
disposableIfHidden(n) == isMesh(n) /\ ~sgVisible[n]

\* the test of disposeUnusedObjects: a mesh, not visible, parent === null
disposable(n) == isMesh(n) /\ ~sgVisible[n] /\ sgParent[n] = NoParent

ReclaimStart ==
  /\ sgParent = [n \in SgNodes |-> NoParent]
  /\ sgVisible = [n \in SgNodes |-> TRUE]
  /\ disposeLog = {}
  /\ reclaimRuns = 0

\* the reconciler mounts an object under the scene or under another object
SgAttach ==
  \E n \in SgNodes : \E q \in (SgNodes \cup {SceneRoot}) \ {n} :
    /\ sgParent[n] # q
    /\ q \notin Traversed(n, Cardinality(SgNodes))
    /\ sgParent' = [sgParent EXCEPT ![n] = q]
    /\ UNCHANGED <<sgVisible, disposeLog, reclaimRuns, sceneVars, proxyVars,
                   viewerVars, transformVars, exportVars, generateVars,
                   creditVars>>

\* the reconciler unmounts an object: parent.remove(object)
SgDetach ==
  \E n \in SgNodes :
    /\ sgParent[n] # NoParent
    /\ sgParent' = [sgParent EXCEPT ![n] = NoParent]
    /\ UNCHANGED <<sgVisible, disposeLog, reclaimRuns, sceneVars, proxyVars,
                   viewerVars, transformVars, exportVars, generateVars,
                   creditVars>>

\* an object is hidden or shown again (a suspended subtree, a preview)
SgSetVisible ==
  \E n \in SgNodes :
    /\ sgVisible' = [sgVisible EXCEPT ![n] = ~sgVisible[n]]
    /\ UNCHANGED <<sgParent, disposeLog, reclaimRuns, sceneVars, proxyVars,
                   viewerVars, transformVars, exportVars, generateVars,
                   creditVars>>

\* the 30 s interval fires: disposeUnusedObjects
ReclaimTick ==
  /\ reclaimRuns < MaxReclaimRuns
  /\ reclaimRuns' = reclaimRuns + 1
  /\ disposeLog' = disposeLog \cup
       {[node |-> n, reachable |-> TRUE, visible |-> sgVisible[n],
         parent |-> sgParent[n]] : n \in {m \in Reachable : disposable(m)}}
  /\ UNCHANGED <<sgParent, sgVisible, sceneVars, proxyVars, viewerVars,
                 transformVars, exportVars, generateVars, creditVars>>

\* the scene graph, the interval, and the asset switch with the context loss
\* its cleanupMemory forces
ReclaimNext ==
  \/ SgAttach
  \/ SgDetach
  \/ SgSetVisible
  \/ ReclaimTick
  \/ SetCurrentModel
  \/ ForcedContextLost
  \/ RestoreTimerFire
  \/ RetryTimerFire

\* C22: disposeUnusedObjects disposes no object that is reachable from the
\* scene of the Canvas, visible or not; whatever it disposes is invisible and
\* has no parent.
Thm_C22_NoReachableNodeDisposed ==
  \A d \in disposeLog :
    /\ ~d.reachable
    /\ ~d.visible
    /\ d.parent = NoParent

\* disposeUnusedObjects has run over a scene holding an invisible mesh, which
\* is still attached and was not disposed
Wit_C22_NoReachableNodeDisposed ==
  /\ reclaimRuns > 0
  /\ "mesh" \in Reachable
  /\ ~sgVisible["mesh"]
  /\ \A d \in disposeLog : d.node # "mesh"

\* C23: a step that makes a model with a url the active asset runs
\* disposeUnusedObjects.
CE_C23_ReclaimRunsAtSwitch ==
  [][(SetCurrentModel /\ currentModel' # 0) => reclaimRuns' > reclaimRuns]_vars

\* C29: while a model with a url is the current model, whatever the order of
\* the forced loss event, the restore timers and the retry timer, no retry is
\* counted, the quality is not lowered, no error is set and contextLost is
\* false after every commit.
Thm_C29_SwitchKeepsRetryBudget ==
  currentModel # 0
    => /\ retryCount = 0
       /\ renderQuality = HighQuality
       /\ error = "none"
       /\ ~contextLost

\* a switch has forced a loss, the loss event was handled, and both restore
\* timers have fired
Wit_C29_SwitchKeepsRetryBudget ==
  /\ hasLoseContextExt
  /\ currentModel # 0
  /\ last = "RestoreTimerNoop"
  /\ ~glLost
  /\ ~lostEvtPending
  /\ restoreTimers = 0
  /\ retryTimer = 0

FmtGltf == <<103, 108, 116, 102>>
FmtGltfUpper == <<71, 76, 84, 70>>
FmtObj == <<111, 98, 106>>
FmtGlb == <<103, 108, 98>>
FmtNone == <<>>
Formats == {FmtGltf, FmtGltfUpper, FmtObj, FmtGlb, FmtNone}
Tiers == {"free", "pro", "enterprise"}

\* String.prototype.toLowerCase on ASCII text
toLowerCase(t) ==
  [i \in 1..Len(t) |-> IF t[i] \in 65..90 THEN t[i] + 32 ELSE t[i]]

NoExportResp == [status |-> 0, downloadUrl |-> "none"]
NoDownload == [outcome |-> "none", url |-> "none"]

\* export-model: the answer to { modelId, format, userId } for the model row
\* and profile the service-role client reads
exportModel(format, row, tier, signOk) ==
  IF format = FmtNone THEN [status |-> 400, downloadUrl |-> "none"]
  ELSE IF ~row.found THEN [status |-> 404, downloadUrl |-> "none"]
  ELSE IF tier = "free" /\ toLowerCase(format) # FmtGltf
    THEN [status |-> 403, downloadUrl |-> "none"]
  ELSE IF row.file_path
    THEN IF signOk THEN [status |-> 200, downloadUrl |-> "signedUrl"]
         ELSE [status |-> 500, downloadUrl |-> "none"]
  ELSE [status |-> 200, downloadUrl |-> "model_url"]

ExportStart ==
  /\ dlPc = "idle"
  /\ dlFormat = FmtNone
  /\ dlUser \in BOOLEAN
  /\ dlSession \in BOOLEAN
  /\ subscriptionTier \in Tiers
  /\ modelRow \in [found : BOOLEAN, file_path : BOOLEAN]
  /\ exportResp = NoExportResp
  /\ dlResult = NoDownload

\* no download was asked for: a signed-in free user and an external model
ExportIdle ==
  /\ dlPc = "idle"
  /\ dlFormat = FmtNone
  /\ dlUser = TRUE
  /\ dlSession = TRUE
  /\ subscriptionTier = "free"
  /\ modelRow = [found |-> TRUE, file_path |-> FALSE]
  /\ exportResp = NoExportResp
  /\ dlResult = NoDownload

ExportRest == <<sceneVars, proxyVars, viewerVars, transformVars, reclaimVars,
                generateVars, creditVars>>

\* downloadModel(modelId, format) up to the select on table models
DlCall ==
  /\ dlPc = "idle"
  /\ \E format \in Formats :
       /\ dlFormat' = format
       /\ IF ~dlUser \/ ~dlSession
            THEN dlPc' = "done" /\ dlResult' = [outcome |-> "threw", url |-> "none"]
            ELSE dlPc' = "select" /\ dlResult' = NoDownload
  /\ exportResp' = NoExportResp
  /\ UNCHANGED <<dlUser, dlSession, subscriptionTier, modelRow, ExportRest>>

\* the row arrives: not found, stored in the bucket, or external
DlModelRow ==
  /\ dlPc = "select"
  /\ IF ~modelRow.found
       THEN dlPc' = "done" /\ dlResult' = [outcome |-> "threw", url |-> "none"]
       ELSE IF modelRow.file_path
         THEN dlPc' = "signing" /\ UNCHANGED dlResult
         ELSE dlPc' = "exporting" /\ UNCHANGED dlResult
  /\ UNCHANGED <<dlFormat, dlUser, dlSession, subscriptionTier, modelRow,
                 exportResp, ExportRest>>

\* createSignedUrl(model.file_path, 3600) answers
DlSignedUrl ==
  /\ dlPc = "signing"
  /\ \E signOk \in BOOLEAN :
       dlResult' = IF signOk THEN [outcome |-> "returned", url |-> "signedUrl"]
                   ELSE [outcome |-> "threw", url |-> "none"]
  /\ dlPc' = "done"
  /\ UNCHANGED <<dlFormat, dlUser, dlSession, subscriptionTier, modelRow,
                 exportResp, ExportRest>>

\* the export-model function answers the POST of downloadModel
ExportModelReply ==
  /\ dlPc = "exporting"
  /\ \E signOk \in BOOLEAN :
       exportResp' = exportModel(dlFormat, modelRow, subscriptionTier, signOk)
  /\ dlPc' = "replied"
  /\ UNCHANGED <<dlFormat, dlUser, dlSession, subscriptionTier, modelRow,
                 dlResult, ExportRest>>

\* downloadModel after the POST: throw on !response.ok, else the proxy url
DlExportDone ==
  /\ dlPc = "replied"
  /\ dlResult' = IF exportResp.status \in 200..299
                   THEN [outcome |-> "returned", url |-> "proxyUrl"]
                   ELSE [outcome |-> "threw", url |-> "none"]
  /\ dlPc' = "done"
  /\ UNCHANGED <<dlFormat, dlUser, dlSession, subscriptionTier, modelRow,
                 exportResp, ExportRest>>

\* the user asks for another download
DlAgain ==
  /\ dlPc = "done"
  /\ dlPc' = "idle"
  /\ dlFormat' = FmtNone
  /\ exportResp' = NoExportResp
  /\ dlResult' = NoDownload
  /\ UNCHANGED <<dlUser, dlSession, subscriptionTier, modelRow, ExportRest>>

ExportNext ==
  \/ DlCall
  \/ DlModelRow
  \/ DlSignedUrl
  \/ ExportModelReply
  \/ DlExportDone
  \/ DlAgain

\* C27: a user of tier 'free' obtains a download url from downloadModel only
\* for format gltf, for a stored file as for an external url.
CE_C27_FreeTierOnlyGltf ==
  (subscriptionTier = "free" /\ dlResult.outcome = "returned")
    => toLowerCase(dlFormat) = FmtGltf

\* ======================================================================
\* generateModel (store.ts) and the answers of the generate-model function
\* ======================================================================

MaxGenCalls == 2

\* the responses the generate-model function builds: status and the fields
\* of the JSON body
PromptRequired == [status |-> 400, body |-> {"error"}]
ProfileNotFound == [status |-> 404, body |-> {"error"}]
InsufficientCredits == [status |-> 403, body |-> {"error"}]
FunctionFailed == [status |-> 500, body |-> {"error", "details"}]
Generated == [status |-> 200, body |-> {"model_id", "model_url", "message"}]
FunctionAnswers ==
  {PromptRequired, ProfileNotFound, InsufficientCredits, FunctionFailed,
   Generated}
NoAnswer == [status |-> 0, body |-> {}]

\* response.ok and data.success as generateModel reads them
responseOk(r) == r.status \in 200..299
dataSuccess(r) == "success" \in r.body

GenerateStart ==
  /\ genPc = "idle"
  /\ genResp = NoAnswer
  /\ genOutcome = "none"
  /\ genCalls = 0

GenerateRest == <<viewerVars, transformVars, reclaimVars, exportVars,
                  creditVars>>

\* generateModel(prompt): set({ isGenerating: true }), then getSession
GmCall ==
  /\ genPc \in {"idle", "done"}
  /\ genCalls < MaxGenCalls
  /\ genCalls' = genCalls + 1
  /\ genPc' = "session"
  /\ genResp' = NoAnswer
  /\ genOutcome' = "none"
  /\ isGenerating' = TRUE
  /\ Commit(St, "GmCall")
  /\ UNCHANGED <<registered, currentModel, hasError, hasLoseContextExt,
                 dismissT1, dismissT2, retriedSinceLoss, GenerateRest>>

\* getSession answers: without a session the call throws, else the POST
\* to the function starts
GmSession ==
  /\ genPc = "session"
  /\ \E session \in BOOLEAN :
       IF session
         THEN /\ genPc' = "fetching"
              /\ UNCHANGED <<genOutcome, isGenerating>>
         ELSE /\ genPc' = "done"
              /\ genOutcome' = "threw"
              /\ isGenerating' = FALSE
  /\ Commit(St, "GmSession")
  /\ UNCHANGED <<genResp, genCalls, registered, currentModel, hasError,
                 hasLoseContextExt, dismissT1, dismissT2, retriedSinceLoss,
                 GenerateRest>>

\* the function answers: !response.ok and !data.success throw; otherwise the
\* model is uploaded, loadModels() makes the newest record the current model,
\* setCurrentModel(model_id) replaces it by the id (a value without
\* model_url), and isGenerating is cleared
GmReply ==
  /\ genPc = "fetching"
  /\ \E r \in FunctionAnswers :
       /\ genResp' = r
       /\ IF responseOk(r) /\ dataSuccess(r)
            THEN /\ genOutcome' = "returned"
                 /\ currentModel' = 0
                 /\ Commit(FlushEffects(St, St, 1, TRUE), "GmReply")
            ELSE /\ genOutcome' = "threw"
                 /\ UNCHANGED currentModel
                 /\ Commit(St, "GmReply")
  /\ genPc' = "done"
  /\ isGenerating' = FALSE
  /\ UNCHANGED <<genCalls, registered, hasError, hasLoseContextExt,
                 dismissT1, dismissT2, retriedSinceLoss, GenerateRest>>

\* generateModel, and the user picking one of their models meanwhile
GenerateNext ==
  \/ GmCall
  \/ GmSession
  \/ GmReply
  \/ SetCurrentModel

\* C28: when a call of generateModel has ended and the function had answered
\* it with 200, the call returned, the current model is a model record with
\* a model_url and isGenerating is false.
CE_C28_GeneratedModelBecomesCurrent ==
  (genPc = "done" /\ genResp.status = 200)
    => /\ genOutcome = "returned"
       /\ currentModel # 0
       /\ ~isGenerating

\* ======================================================================
\* The generate-model function: credit check, insert, deduction
\* ======================================================================

MaxRequests == 2
MaxCredits == 2

\* the requests the function is serving at the same time
Requests == 1..MaxRequests

CreditsStart(c) ==
  /\ credits = c
  /\ startCredits = c
  /\ modelsCreated = 0
  /\ fnPc = [r \in Requests |-> "idle"]
  /\ fnCredits = [r \in Requests |-> 0]
  /\ fnStatus = [r \in Requests |-> 0]

CreditsRest ==
  <<sceneVars, proxyVars, viewerVars, transformVars, reclaimVars, exportVars,
    generateVars>>

\* a request arrives: without a prompt it is answered 400, else the profile
\* is selected
FnReceive(r) ==
  /\ fnPc[r] = "idle"
  /\ \E prompt \in BOOLEAN :
       IF prompt
         THEN /\ fnPc' = [fnPc EXCEPT ![r] = "profile"]
              /\ UNCHANGED fnStatus
         ELSE /\ fnPc' = [fnPc EXCEPT ![r] = "done"]
              /\ fnStatus' = [fnStatus EXCEPT ![r] = 400]
  /\ UNCHANGED <<credits, startCredits, modelsCreated, fnCredits, CreditsRest>>

\* the select of profiles.credits answers: 404 without a profile, 403 when
\* profile.credits < 1, else the call to the Meshy API starts
FnProfile(r) ==
  /\ fnPc[r] = "profile"
  /\ \E found \in BOOLEAN :
       IF ~found
         THEN /\ fnPc' = [fnPc EXCEPT ![r] = "done"]
              /\ fnStatus' = [fnStatus EXCEPT ![r] = 404]
              /\ UNCHANGED fnCredits
         ELSE /\ fnCredits' = [fnCredits EXCEPT ![r] = credits]
              /\ IF credits < 1
                   THEN /\ fnPc' = [fnPc EXCEPT ![r] = "done"]
                        /\ fnStatus' = [fnStatus EXCEPT ![r] = 403]
                   ELSE /\ fnPc' = [fnPc EXCEPT ![r] = "meshy"]
                        /\ UNCHANGED fnStatus
  /\ UNCHANGED <<credits, startCredits, modelsCreated, CreditsRest>>

\* the Meshy API answers: an error or an answer without a url is thrown (500)
FnMeshy(r) ==
  /\ fnPc[r] = "meshy"
  /\ \E ok \in BOOLEAN :
       IF ok
         THEN /\ fnPc' = [fnPc EXCEPT ![r] = "insert"]
              /\ UNCHANGED fnStatus
         ELSE /\ fnPc' = [fnPc EXCEPT ![r] = "done"]
              /\ fnStatus' = [fnStatus EXCEPT ![r] = 500]
  /\ UNCHANGED <<credits, startCredits, modelsCreated, fnCredits, CreditsRest>>

\* the insert into table models answers: modelError is thrown (500)
FnInsert(r) ==
  /\ fnPc[r] = "insert"
  /\ \E ok \in BOOLEAN :
       IF ok
         THEN /\ modelsCreated' = modelsCreated + 1
              /\ fnPc' = [fnPc EXCEPT ![r] = "deduct"]
              /\ UNCHANGED fnStatus
         ELSE /\ fnPc' = [fnPc EXCEPT ![r] = "done"]
              /\ fnStatus' = [fnStatus EXCEPT ![r] = 500]
              /\ UNCHANGED modelsCreated
  /\ UNCHANGED <<credits, startCredits, fnCredits, CreditsRest>>

\* update({ credits: profile.credits - 1 }), with the credits this request
\* read; an updateError is logged and the request is answered 200 all the same
FnDeduct(r) ==
  /\ fnPc[r] = "deduct"
  /\ \E ok \in BOOLEAN :
       credits' = IF ok THEN fnCredits[r] - 1 ELSE credits
  /\ fnPc' = [fnPc EXCEPT ![r] = "done"]
  /\ fnStatus' = [fnStatus EXCEPT ![r] = 200]
  /\ UNCHANGED <<startCredits, modelsCreated, fnCredits, CreditsRest>>

CreditsNext ==
  \E r \in Requests :
    \/ FnReceive(r)
    \/ FnProfile(r)
    \/ FnMeshy(r)
    \/ FnInsert(r)
    \/ FnDeduct(r)

\* C30: for a user who started with c credits, at most c model rows are
\* created, the stored credits are never negative, and once every request is
\* answered the stored credits are c minus the number of rows created.
CE_C30_CreditsNeverOverspent ==
  /\ modelsCreated <= startCredits
  /\ credits >= 0
  /\ (\A r \in Requests : fnPc[r] \in {"idle", "done"})
       => credits = startCredits - modelsCreated

Init ==
  /\ SceneInit
  /\ ProxyInit
  /\ ViewerStart
  /\ contentCache = {}
  /\ preCache = {}
  /\ TransformStart(2, DefaultTransform)
  /\ PlacementStart(2, 0)
  /\ ReclaimStart
  /\ ExportIdle
  /\ GenerateStart
  /\ CreditsStart(1)

\* the viewer component and its events
Next == SceneNext

Spec == Init /\ [][Next]_vars

\* the proxy handlers
SpecProxy == Init /\ [][ProxyNext]_vars

\* ModelViewer: resolution of the url and loading
InitViewer ==
  /\ SceneInit
  /\ ProxyInit
  /\ ViewerStart
  /\ contentCache \in InitialCaches
  /\ preCache = contentCache
  /\ TransformStart(2, DefaultTransform)
  /\ PlacementStart(2, 0)
  /\ ReclaimStart
  /\ ExportIdle
  /\ GenerateStart
  /\ CreditsStart(1)

SpecViewer == InitViewer /\ [][ViewerNext]_vars

\* ModelViewer: the transform effect on a loaded scene
InitTransform ==
  /\ SceneInit
  /\ ProxyInit
  /\ ViewerStart
  /\ contentCache = {}
  /\ preCache = {}
  /\ \E d \in RawDims, c \in RawCenters, T \in Transforms :
       TransformStart(d, T) /\ PlacementStart(d, c)
  /\ ReclaimStart
  /\ ExportIdle
  /\ GenerateStart
  /\ CreditsStart(1)

SpecTransform == InitTransform /\ [][TransformNext]_vars

\* the scene graph of the Canvas, the interval and the asset switch
SpecReclaim == Init /\ [][ReclaimNext]_vars

\* downloadModel and the export-model function
InitExport ==
  /\ SceneInit
  /\ ProxyInit
  /\ ViewerStart
  /\ contentCache = {}
  /\ preCache = {}
  /\ TransformStart(2, DefaultTransform)
  /\ PlacementStart(2, 0)
  /\ ReclaimStart
  /\ ExportStart
  /\ GenerateStart
  /\ CreditsStart(1)

SpecExport == InitExport /\ [][ExportNext]_vars

\* generateModel
SpecGenerate == Init /\ [][GenerateNext]_vars

\* the generate-model function serving concurrent requests of one user
InitCredits ==
  /\ SceneInit
  /\ ProxyInit
  /\ ViewerStart
  /\ contentCache = {}
  /\ preCache = {}
  /\ TransformStart(2, DefaultTransform)
  /\ PlacementStart(2, 0)
  /\ ReclaimStart
  /\ ExportIdle
  /\ GenerateStart
  /\ \E c \in 0..MaxCredits : CreditsStart(c)

SpecCredits == InitCredits /\ [][CreditsNext]_vars

====
